---- MODULE Spec2Model ----
(***************************************************************************)
(* Model of the hotplate reflow controller firmware (src/src/main.cpp).     *)
(*                                                                         *)
(* The firmware is one polling loop (loop) plus two interrupt handlers     *)
(* (rotaryButtonISR, rotaryEncoderISR).  The state is the set of global    *)
(* variables of main.cpp that the controller logic reads or writes.  Of    *)
(* the TFT only the temperature field that printTemp draws is kept         *)
(* (tempField); the other drawing calls and the variables used only for    *)
(* drawing are left out.                                                   *)
(*                                                                         *)
(* Representation choices:                                                 *)
(*  - a C++ double is an extended rational [n, d]: d > 0 is the finite     *)
(*    value n/d in lowest terms, d = 0 is +Inf (n = 1), -Inf (n = -1) or   *)
(*    NaN (n = 0).  Rounding of finite values is not modelled.             *)
(*  - elapsedHeatingTime is kept as the number of quarter seconds, since   *)
(*    every control step adds SSRInterval / 1000.0 = 0.25 to it.           *)
(*  - millis() is kept relative to the two timestamps that are compared    *)
(*    with it: sinceSSR = millis() - SSRTimer and                          *)
(*    sinceTemp = millis() - temperatureTimer, saturating at MaxLag.       *)
(*  - the sixteen ...Selected flags are the function `selected`, indexed   *)
(*    by the menu item (itemCounter value) whose press toggles the flag.   *)
(***************************************************************************)
EXTENDS Integers, Sequences, FiniteSets, TLC

(***************************************************************************)
(* Program constants                                                       *)
(***************************************************************************)
OFF == 0
ON == 255
SSRInterval == 250
TempInterval == 250
TicksPerSecond == 4
EndOfScale == 340
RoomTemp == 20
CoolingTarget == 40
TempErrorLimit == 500
TempErrorDefault == 55
preheatCutOffTime == 15
reflowCutOffTime == 15
EarlyMargin == 15
LastItem == 15
NoItem == 0 - 1

PREHEAT == 0
SOAK == 1
REFLOW == 2
HOLD == 3
COOLING == 4

\* menu items (values of itemCounter) of the fields and buttons
ItemPreheatTemp == 0
ItemPreheatTime == 1
ItemSoakingTemp == 2
ItemSoakingTime == 3
ItemReflowTemp == 4
ItemReflowTime == 5
ItemCoolingTemp == 6
ItemCoolingTime == 7
ItemWarmupTemp == 8
ItemWarmupButton == 9
ItemStartStop == 10
ItemFreeHeatingTarget == 11
ItemFreeHeatingOnOff == 12
ItemFreeCoolingTarget == 13
ItemFreeCoolingOnOff == 14
ItemSolderpaste == 15

Items == 0..LastItem

\* the table of solder pastes (name left out)
solderpastes ==
  [i \in 0..3 |->
     IF i \in {0, 1}
       THEN [preheatTemp |-> 90, preheatTime |-> 90, soakingTemp |-> 130,
             soakingTime |-> 180, reflowTemp |-> 165, reflowTime |-> 240,
             coolingTemp |-> 165, coolingTime |-> 250]
       ELSE [preheatTemp |-> 100, preheatTime |-> IF i = 2 THEN 30 ELSE 60,
             soakingTemp |-> 150, soakingTime |-> 120, reflowTemp |-> 235,
             reflowTime |-> 210, coolingTemp |-> 235, coolingTime |-> 220]]

numSolderpastes == 4

(***************************************************************************)
(* Bounds of the model                                                     *)
(***************************************************************************)
\* encoder detents of one long turn of the knob
BurstLen == 30
\* control steps of one activation followed by Spec
MaxTicks == 2
\* mode activations in one run of Spec
MaxStarts == 2
\* turns of the knob that change a value field in one run of SpecEdit
MaxEdits == 1
MaxPreempts == 1
PollTicks == 3
\* runs of rotaryButtonISR in one run of SpecPress
MaxPresses == 3
\* detents of a long turn of the knob in SpecRange (enough to take every
\* value from its default to either end of its range), and turns of the
\* knob that change a value field in one run of SpecRange
RangeTurn == 250
RangeEdits == 1
\* control steps of one activation followed by SpecEdit
EditTicks == 1
\* mode activations in one run of SpecEdit
EditStarts == 1

\* the two millis() differences saturate just above the intervals they are
\* compared with: every larger value passes the same tests
MaxLag == SSRInterval + 1
PollLag == 2 * SSRInterval + 2
PollSteps == {0, SSRInterval \div 2, PollLag}

\* a turn of the knob is one detent or a long turn
DetentCounts == {1, BurstLen}
\* milliseconds between two iterations of loop(): none, or more than either
\* interval
TimeSteps == {0, SSRInterval + 1}
\* in a session every iteration of loop() runs a control step
SessionSteps == {SSRInterval + 1}
\* thermocouple readings: below every setpoint, above every setpoint, and
\* above the error limit of printTemp
TempSamples == {30, 240, 600}
\* readings during a reflow session: below every profile temperature and
\* above every profile temperature
SessionTemps == {25, 240}
\* the reading of a run of SpecEdit
EditTemps == {30}
\* degrees by which the plate lags behind the target in SpecLag
LagDegrees == 5
\* degrees below the setpoint of a reading outside the slow-down band, and
\* control steps of one activation followed by SpecStage, and of the free
\* cooling by SpecTrack
StageFar == 30
StageTicks == 3

(***************************************************************************)
(* Doubles as extended rationals                                           *)
(***************************************************************************)
Abs(x) == IF x < 0 THEN 0 - x ELSE x

Sign(x) == IF x < 0 THEN 0 - 1 ELSE IF x > 0 THEN 1 ELSE 0

RECURSIVE Gcd(_, _)
Gcd(a, b) == IF b = 0 THEN a ELSE Gcd(b, a % b)

\* the double n/d for integers n, d (d = 0 gives Inf or NaN as in IEEE 754)
Value(n, d) ==
  IF d = 0 THEN [n |-> Sign(n), d |-> 0]
  ELSE LET g == Gcd(Abs(n), Abs(d))
           s == Sign(d)
       IN  [n |-> (s * n) \div g, d |-> Abs(d) \div g]

Num(i) == [n |-> i, d |-> 1]

NaN == [n |-> 0, d |-> 0]

IsNaN(a) == a.d = 0 /\ a.n = 0

IsInf(a) == a.d = 0 /\ a.n # 0

IsFinite(a) == a.d > 0

Mul(a, b) == Value(a.n * b.n, a.d * b.d)

Div(a, b) ==
  IF IsInf(a) /\ IsFinite(b)
    THEN Value(a.n * (IF b.n < 0 THEN 0 - 1 ELSE 1), 0)
    ELSE Value(a.n * b.d, a.d * b.n)

Add(a, b) ==
  IF IsNaN(a) \/ IsNaN(b) THEN NaN
  ELSE IF IsInf(a) /\ IsInf(b) THEN (IF a.n = b.n THEN a ELSE NaN)
  ELSE IF IsInf(a) THEN a
  ELSE IF IsInf(b) THEN b
  ELSE Value(a.n * b.d + b.n * a.d, a.d * b.d)

Neg(a) == [n |-> 0 - a.n, d |-> a.d]

Sub(a, b) == Add(a, Neg(b))

\* a < b on doubles: false when either is NaN
Lt(a, b) ==
  IF IsNaN(a) \/ IsNaN(b) THEN FALSE
  ELSE IF IsInf(a) THEN a.n < 0 /\ ~(IsInf(b) /\ b.n < 0)
  ELSE IF IsInf(b) THEN b.n > 0
  ELSE a.n * b.d < b.n * a.d

Gt(a, b) == Lt(b, a)

Ge(a, b) ==
  IF IsNaN(a) \/ IsNaN(b) THEN FALSE ELSE ~Lt(a, b)

\* elapsedHeatingTime in seconds, from the count of quarter seconds
Seconds(q) == Value(q, TicksPerSecond)

Min(a, b) == IF a < b THEN a ELSE b

(***************************************************************************)
(* State: the globals of main.cpp, the two output pins, the function-local *)
(* statics of runWarmup and freeHeating (warmup_..., heating_...), the     *)
(* text that printTemp last drew in the temperature field of the TFT       *)
(* (tempField, empty until the first reading), and the model's counters:   *)
(* edits (turns of the knob that edited a value), starts (mode             *)
(* activations), preempts (runs of rotaryEncoderISR inside                 *)
(* processRotaryButton) and, counted by the actions of SpecPress only,     *)
(* presses (runs of rotaryButtonISR) and served (executions of             *)
(* processRotaryButton).                                                   *)
(***************************************************************************)
VARIABLES
  itemCounter, selected, editMode, buttonPressedFlag,
  solderPasteSelected, prev_solderPasteSelected,
  preheatTemp, preheatTime, soakingTemp, soakingTime,
  reflowTemp, reflowTime, coolingTemp, coolingTime,
  preheatCutOff, reflowCutOff,
  warmupTemp, freeHeatingTemp, freeCoolingTemp,
  reflow, enableWarmup, enableFreeHeating, enableFreeCooling,
  heatingEnabled, coolingFanEnabled,
  currentPhase, elapsedHeatingTime, targetTemp, TCCelsius,
  SSR_pin, Fan_pin, Fan,
  warmup_rampup, warmup_slowdown, heating_rampup, heating_slowdown,
  sinceSSR, sinceTemp, edits, starts, tempField, preempts, presses, served

vars ==
  <<itemCounter, selected, editMode, buttonPressedFlag,
    solderPasteSelected, prev_solderPasteSelected,
    preheatTemp, preheatTime, soakingTemp, soakingTime,
    reflowTemp, reflowTime, coolingTemp, coolingTime,
    preheatCutOff, reflowCutOff,
    warmupTemp, freeHeatingTemp, freeCoolingTemp,
    reflow, enableWarmup, enableFreeHeating, enableFreeCooling,
    heatingEnabled, coolingFanEnabled,
    currentPhase, elapsedHeatingTime, targetTemp, TCCelsius,
    SSR_pin, Fan_pin, Fan,
    warmup_rampup, warmup_slowdown, heating_rampup, heating_slowdown,
    sinceSSR, sinceTemp, edits, starts, tempField, preempts, presses,
    served>>

\* the current state as one record, so that the functions of main.cpp can be
\* written as operators from state to state and composed as loop() calls them
St ==
  [itemCounter |-> itemCounter, selected |-> selected, editMode |-> editMode,
   buttonPressedFlag |-> buttonPressedFlag,
   solderPasteSelected |-> solderPasteSelected,
   prev_solderPasteSelected |-> prev_solderPasteSelected,
   preheatTemp |-> preheatTemp, preheatTime |-> preheatTime,
   soakingTemp |-> soakingTemp, soakingTime |-> soakingTime,
   reflowTemp |-> reflowTemp, reflowTime |-> reflowTime,
   coolingTemp |-> coolingTemp, coolingTime |-> coolingTime,
   preheatCutOff |-> preheatCutOff, reflowCutOff |-> reflowCutOff,
   warmupTemp |-> warmupTemp, freeHeatingTemp |-> freeHeatingTemp,
   freeCoolingTemp |-> freeCoolingTemp,
   reflow |-> reflow, enableWarmup |-> enableWarmup,
   enableFreeHeating |-> enableFreeHeating,
   enableFreeCooling |-> enableFreeCooling,
   heatingEnabled |-> heatingEnabled, coolingFanEnabled |-> coolingFanEnabled,
   currentPhase |-> currentPhase, elapsedHeatingTime |-> elapsedHeatingTime,
   targetTemp |-> targetTemp, TCCelsius |-> TCCelsius,
   SSR_pin |-> SSR_pin, Fan_pin |-> Fan_pin, Fan |-> Fan,
   warmup_rampup |-> warmup_rampup, warmup_slowdown |-> warmup_slowdown,
   heating_rampup |-> heating_rampup, heating_slowdown |-> heating_slowdown,
   sinceSSR |-> sinceSSR, sinceTemp |-> sinceTemp, edits |-> edits,
   starts |-> starts, tempField |-> tempField, preempts |-> preempts,
   presses |-> presses, served |-> served]

\* the variables take the values of the record s
Is(s) ==
  /\ itemCounter = s.itemCounter /\ selected = s.selected
  /\ editMode = s.editMode /\ buttonPressedFlag = s.buttonPressedFlag
  /\ solderPasteSelected = s.solderPasteSelected
  /\ prev_solderPasteSelected = s.prev_solderPasteSelected
  /\ preheatTemp = s.preheatTemp /\ preheatTime = s.preheatTime
  /\ soakingTemp = s.soakingTemp /\ soakingTime = s.soakingTime
  /\ reflowTemp = s.reflowTemp /\ reflowTime = s.reflowTime
  /\ coolingTemp = s.coolingTemp /\ coolingTime = s.coolingTime
  /\ preheatCutOff = s.preheatCutOff /\ reflowCutOff = s.reflowCutOff
  /\ warmupTemp = s.warmupTemp /\ freeHeatingTemp = s.freeHeatingTemp
  /\ freeCoolingTemp = s.freeCoolingTemp
  /\ reflow = s.reflow /\ enableWarmup = s.enableWarmup
  /\ enableFreeHeating = s.enableFreeHeating
  /\ enableFreeCooling = s.enableFreeCooling
  /\ heatingEnabled = s.heatingEnabled
  /\ coolingFanEnabled = s.coolingFanEnabled
  /\ currentPhase = s.currentPhase
  /\ elapsedHeatingTime = s.elapsedHeatingTime
  /\ targetTemp = s.targetTemp /\ TCCelsius = s.TCCelsius
  /\ SSR_pin = s.SSR_pin /\ Fan_pin = s.Fan_pin
  /\ Fan = s.Fan
  /\ warmup_rampup = s.warmup_rampup /\ warmup_slowdown = s.warmup_slowdown
  /\ heating_rampup = s.heating_rampup
  /\ heating_slowdown = s.heating_slowdown
  /\ sinceSSR = s.sinceSSR /\ sinceTemp = s.sinceTemp /\ edits = s.edits
  /\ starts = s.starts /\ tempField = s.tempField
  /\ preempts = s.preempts /\ presses = s.presses /\ served = s.served

\* the next state is the record s
Becomes(s) ==
  /\ itemCounter' = s.itemCounter /\ selected' = s.selected
  /\ editMode' = s.editMode /\ buttonPressedFlag' = s.buttonPressedFlag
  /\ solderPasteSelected' = s.solderPasteSelected
  /\ prev_solderPasteSelected' = s.prev_solderPasteSelected
  /\ preheatTemp' = s.preheatTemp /\ preheatTime' = s.preheatTime
  /\ soakingTemp' = s.soakingTemp /\ soakingTime' = s.soakingTime
  /\ reflowTemp' = s.reflowTemp /\ reflowTime' = s.reflowTime
  /\ coolingTemp' = s.coolingTemp /\ coolingTime' = s.coolingTime
  /\ preheatCutOff' = s.preheatCutOff /\ reflowCutOff' = s.reflowCutOff
  /\ warmupTemp' = s.warmupTemp /\ freeHeatingTemp' = s.freeHeatingTemp
  /\ freeCoolingTemp' = s.freeCoolingTemp
  /\ reflow' = s.reflow /\ enableWarmup' = s.enableWarmup
  /\ enableFreeHeating' = s.enableFreeHeating
  /\ enableFreeCooling' = s.enableFreeCooling
  /\ heatingEnabled' = s.heatingEnabled
  /\ coolingFanEnabled' = s.coolingFanEnabled
  /\ currentPhase' = s.currentPhase
  /\ elapsedHeatingTime' = s.elapsedHeatingTime
  /\ targetTemp' = s.targetTemp /\ TCCelsius' = s.TCCelsius
  /\ SSR_pin' = s.SSR_pin /\ Fan_pin' = s.Fan_pin
  /\ Fan' = s.Fan
  /\ warmup_rampup' = s.warmup_rampup /\ warmup_slowdown' = s.warmup_slowdown
  /\ heating_rampup' = s.heating_rampup
  /\ heating_slowdown' = s.heating_slowdown
  /\ sinceSSR' = s.sinceSSR /\ sinceTemp' = s.sinceTemp /\ edits' = s.edits
  /\ starts' = s.starts /\ tempField' = s.tempField
  /\ preempts' = s.preempts /\ presses' = s.presses /\ served' = s.served

(***************************************************************************)
(* setup(): the state when loop() first runs                               *)
(***************************************************************************)
\* the eight working values become those of table entry i
LoadPaste(s, i) ==
  [s EXCEPT !.preheatTemp = solderpastes[i].preheatTemp,
            !.preheatTime = solderpastes[i].preheatTime,
            !.soakingTemp = solderpastes[i].soakingTemp,
            !.soakingTime = solderpastes[i].soakingTime,
            !.reflowTemp = solderpastes[i].reflowTemp,
            !.reflowTime = solderpastes[i].reflowTime,
            !.coolingTemp = solderpastes[i].coolingTemp,
            !.coolingTime = solderpastes[i].coolingTime]

\* forward prediction of the heater cut-off in the preheat and reflow phases
SetCutOffs(s) ==
  [s EXCEPT !.preheatCutOff = s.preheatTime - preheatCutOffTime,
            !.reflowCutOff = s.reflowTime - reflowCutOffTime]

\* the initial values of the globals, before setup() runs
Globals ==
  [itemCounter |-> NoItem, selected |-> [k \in Items |-> FALSE],
   editMode |-> FALSE, buttonPressedFlag |-> FALSE,
   solderPasteSelected |-> 0, prev_solderPasteSelected |-> 0,
   preheatTemp |-> 0, preheatTime |-> 0, soakingTemp |-> 0, soakingTime |-> 0,
   reflowTemp |-> 0, reflowTime |-> 0, coolingTemp |-> 0, coolingTime |-> 0,
   preheatCutOff |-> 0, reflowCutOff |-> 0,
   warmupTemp |-> 38, freeHeatingTemp |-> 200, freeCoolingTemp |-> 40,
   reflow |-> FALSE, enableWarmup |-> FALSE, enableFreeHeating |-> FALSE,
   enableFreeCooling |-> FALSE, heatingEnabled |-> FALSE,
   coolingFanEnabled |-> FALSE,
   currentPhase |-> PREHEAT, elapsedHeatingTime |-> 0,
   targetTemp |-> Num(0), TCCelsius |-> Num(0),
   SSR_pin |-> OFF, Fan_pin |-> FALSE, Fan |-> "OFF",
   warmup_rampup |-> TRUE, warmup_slowdown |-> FALSE,
   heating_rampup |-> TRUE, heating_slowdown |-> FALSE,
   sinceSSR |-> MaxLag, sinceTemp |-> MaxLag, edits |-> 0, starts |-> 0,
   tempField |-> "", preempts |-> 0, presses |-> 0, served |-> 0]

\* setup() leaves the SSR off, the fan off (after its spin test) and the
\* first paste loaded; it ends more than 5 s after millis() = 0, so both
\* timers are due
Setup == SetCutOffs(LoadPaste(Globals, Globals.solderPasteSelected))

Init == Is(Setup)

(***************************************************************************)
(* rotaryButtonISR and rotaryEncoderISR                                    *)
(***************************************************************************)
rotaryButtonISR(s) == [s EXCEPT !.buttonPressedFlag = TRUE]

\* Step without the tests against lo and hi
Step_Unlimited(v, dir, lo, hi) == IF dir < 0 THEN v - 1 ELSE v + 1

\* one step of an edited value: down when DT differs from CLK, up otherwise,
\* kept within lo..hi
Step(v, dir, lo, hi) ==
  IF dir < 0 THEN (IF v > lo THEN v - 1 ELSE v)
             ELSE (IF v < hi THEN v + 1 ELSE v)

\* the solder paste index wraps around
StepPaste(v, dir) ==
  IF dir < 0 THEN (IF v > 0 THEN v - 1 ELSE numSolderpastes - 1)
             ELSE (IF v < numSolderpastes - 1 THEN v + 1 ELSE 0)

\* the menu position wraps around
StepItem(v, dir) ==
  IF dir < 0 THEN (IF v > 0 THEN v - 1 ELSE LastItem)
             ELSE (IF v < LastItem THEN v + 1 ELSE 0)

\* rotaryEncoderISR on a rising CLK edge that differs from CLKPrevious (the
\* only edges on which it changes anything but CLKPrevious and menuChanged);
\* dir < 0 when digitalRead(RotaryDT) != CLKNow.  The branches are tested in
\* the order of the source.
rotaryEncoderISR(s, dir) ==
  IF s.selected[ItemPreheatTemp]
    THEN [s EXCEPT !.preheatTemp = Step(@, dir, 20, 150)]
  ELSE IF s.selected[ItemPreheatTime]
    THEN [s EXCEPT !.preheatTime = Step(@, dir, 0, 90)]
  ELSE IF s.selected[ItemSoakingTemp]
    THEN [s EXCEPT !.soakingTemp = Step(@, dir, 20, 180)]
  ELSE IF s.selected[ItemSoakingTime]
    THEN [s EXCEPT !.soakingTime = Step(@, dir, 0, 180)]
  ELSE IF s.selected[ItemReflowTemp]
    THEN [s EXCEPT !.reflowTemp = Step(@, dir, 0, 250)]
  ELSE IF s.selected[ItemReflowTime]
    THEN [s EXCEPT !.reflowTime = Step(@, dir, 0, 240)]
  ELSE IF s.selected[ItemCoolingTemp]
    THEN [s EXCEPT !.coolingTemp = Step(@, dir, 0, 250)]
  ELSE IF s.selected[ItemCoolingTime]
    THEN [s EXCEPT !.coolingTime = Step(@, dir, 0, 250)]
  ELSE IF s.selected[ItemWarmupTemp]
    THEN [s EXCEPT !.warmupTemp = Step(@, dir, 20, 60)]
  ELSE IF s.selected[ItemWarmupButton] THEN s
  ELSE IF s.selected[ItemFreeHeatingTarget]
    THEN [s EXCEPT !.freeHeatingTemp = Step(@, dir, 20, 300)]
  ELSE IF s.selected[ItemStartStop] THEN s
  ELSE IF s.selected[ItemFreeCoolingTarget]
    THEN [s EXCEPT !.freeCoolingTemp = Step(@, dir, 20, 200)]
  ELSE IF s.selected[ItemFreeHeatingOnOff] THEN s
  ELSE IF s.selected[ItemFreeCoolingOnOff] THEN s
  ELSE IF s.selected[ItemSolderpaste]
    THEN [s EXCEPT !.solderPasteSelected = StepPaste(@, dir)]
  ELSE [s EXCEPT !.itemCounter = StepItem(@, dir)]

\* n detents in one direction: n runs of the handler
RECURSIVE Detents(_, _, _)
Detents(s, dir, n) ==
  IF n = 0 THEN s ELSE Detents(rotaryEncoderISR(s, dir), dir, n - 1)

\* a long turn of n detents, taken in halves of at most BurstLen detents;
\* the state after the first half is computed before the second half starts
\* from it
RECURSIVE Turn(_, _, _)
Turn(s, dir, n) ==
  IF n <= BurstLen THEN Detents(s, dir, n)
  ELSE LET half == Turn(s, dir, n \div 2)
       IN  IF half.itemCounter >= NoItem
             THEN Turn(half, dir, n - (n \div 2)) ELSE half

(***************************************************************************)
(* processRotaryButton                                                     *)
(***************************************************************************)
\* cases 0..8, 11 and 13: enter or leave the edit mode of a value field
EditField(s, k) ==
  [s EXCEPT !.selected[k] = ~@, !.editMode = ~s.selected[k]]

\* StartWarmup without freeWarmUpButtonSelected = true: the knob is not held
\* on the button while the warm-up runs
StartWarmup_NotSelected(s) ==
  [s EXCEPT !.reflow = FALSE, !.enableWarmup = TRUE,
            !.heatingEnabled = TRUE, !.elapsedHeatingTime = 0]

StartWarmup(s) ==
  [s EXCEPT !.selected[ItemWarmupButton] = TRUE,
            !.reflow = FALSE, !.enableWarmup = TRUE,
            !.heatingEnabled = TRUE, !.elapsedHeatingTime = 0]

\* StopWarmup without analogWrite(SSR_pin, OFF)
StopWarmup_HeaterKept(s) ==
  [s EXCEPT !.selected[ItemWarmupButton] = FALSE,
            !.enableWarmup = FALSE,
            !.reflow = FALSE, !.heatingEnabled = FALSE]

StopWarmup(s) ==
  [s EXCEPT !.selected[ItemWarmupButton] = FALSE,
            !.enableWarmup = FALSE, !.SSR_pin = OFF,
            !.reflow = FALSE, !.heatingEnabled = FALSE]

\* StartReflow without currentPhase = PREHEAT
StartReflow_PhaseKept(s) ==
  [s EXCEPT !.selected[ItemStartStop] = TRUE, !.editMode = TRUE,
            !.reflow = TRUE,
            !.heatingEnabled = TRUE, !.elapsedHeatingTime = 0]

\* StartReflow without startStopButtonSelected = true: the knob is not held
\* on the button while the session runs
StartReflow_NotSelected(s) ==
  [s EXCEPT !.editMode = TRUE,
            !.currentPhase = PREHEAT, !.reflow = TRUE,
            !.heatingEnabled = TRUE, !.elapsedHeatingTime = 0]

StartReflow(s) ==
  [s EXCEPT !.selected[ItemStartStop] = TRUE, !.editMode = TRUE,
            !.currentPhase = PREHEAT, !.reflow = TRUE,
            !.heatingEnabled = TRUE, !.elapsedHeatingTime = 0]

StopReflow(s) ==
  [s EXCEPT !.selected[ItemStartStop] = FALSE, !.SSR_pin = OFF,
            !.reflow = FALSE, !.heatingEnabled = FALSE,
            !.Fan_pin = FALSE, !.editMode = FALSE]

\* StartFreeHeating without elapsedHeatingTime = 0
StartFreeHeating_ClockKept(s) ==
  [s EXCEPT !.selected[ItemFreeHeatingOnOff] = TRUE,
            !.reflow = FALSE, !.enableFreeHeating = TRUE,
            !.heatingEnabled = TRUE]

StartFreeHeating(s) ==
  [s EXCEPT !.selected[ItemFreeHeatingOnOff] = TRUE,
            !.reflow = FALSE, !.enableFreeHeating = TRUE,
            !.heatingEnabled = TRUE, !.elapsedHeatingTime = 0]

\* StopFreeHeating without analogWrite(SSR_pin, OFF)
StopFreeHeating_HeaterKept(s) ==
  [s EXCEPT !.selected[ItemFreeHeatingOnOff] = FALSE,
            !.enableFreeHeating = FALSE,
            !.reflow = FALSE, !.heatingEnabled = FALSE]

StopFreeHeating(s) ==
  [s EXCEPT !.selected[ItemFreeHeatingOnOff] = FALSE,
            !.enableFreeHeating = FALSE, !.SSR_pin = OFF,
            !.reflow = FALSE, !.heatingEnabled = FALSE]

StartFreeCooling(s) ==
  [s EXCEPT !.selected[ItemFreeCoolingOnOff] = TRUE,
            !.reflow = FALSE, !.enableFreeCooling = TRUE,
            !.elapsedHeatingTime = 0, !.SSR_pin = OFF]

StopFreeCooling(s) ==
  [s EXCEPT !.selected[ItemFreeCoolingOnOff] = FALSE,
            !.enableFreeCooling = FALSE, !.heatingEnabled = FALSE,
            !.reflow = FALSE, !.coolingFanEnabled = FALSE]

\* case 15, second press: the table entry is copied only when the index
\* differs from the one copied last
CommitPaste(s) ==
  LET s1 == [s EXCEPT !.selected[ItemSolderpaste] = FALSE,
                      !.editMode = FALSE]
  IN  IF s.prev_solderPasteSelected # s.solderPasteSelected
        THEN SetCutOffs(
               [LoadPaste(s1, s.solderPasteSelected)
                  EXCEPT !.prev_solderPasteSelected = s.solderPasteSelected])
        ELSE s1

SolderpasteField(s) ==
  IF ~s.selected[ItemSolderpaste]
    THEN [s EXCEPT !.selected[ItemSolderpaste] = TRUE, !.editMode = TRUE]
    ELSE CommitPaste(s)

\* case k of the switch of processRotaryButton; no case matches k = -1
Case(s, k) ==
      IF k \in (0..8) \cup {ItemFreeHeatingTarget, ItemFreeCoolingTarget}
        THEN EditField(s, k)
      ELSE IF k = ItemWarmupButton
        THEN (IF ~s.selected[k] THEN StartWarmup(s) ELSE StopWarmup(s))
      ELSE IF k = ItemStartStop
        THEN (IF ~s.selected[k] THEN StartReflow(s) ELSE StopReflow(s))
      ELSE IF k = ItemFreeHeatingOnOff
        THEN (IF ~s.selected[k] THEN StartFreeHeating(s)
                                ELSE StopFreeHeating(s))
      ELSE IF k = ItemFreeCoolingOnOff
        THEN (IF ~s.selected[k] THEN StartFreeCooling(s)
                                ELSE StopFreeCooling(s))
      ELSE IF k = ItemSolderpaste THEN SolderpasteField(s)
      ELSE s

\* the switch on itemCounter
processRotaryButton(s) == Case(s, s.itemCounter)

\* processRotaryButton with one run of rotaryEncoderISR (a detent in
\* direction dir) between the read of itemCounter by the switch and the first
\* statement of the case
PreemptedButton(s, dir) == Case(rotaryEncoderISR(s, dir), s.itemCounter)

(***************************************************************************)
(* measureTemperature and printTemp                                        *)
(***************************************************************************)
\* printTemp: a reading above 500 is shown as "Temp ERROR" (white on red) and
\* replaced by 55; any other reading is shown as "Temp <n>`C" (on green),
\* kept here as "Temp" since the number is TCCelsius
printTemp(s) ==
  IF Gt(s.TCCelsius, Num(TempErrorLimit))
    THEN [s EXCEPT !.tempField = "Temp ERROR",
                   !.TCCelsius = Num(TempErrorDefault)]
    ELSE [s EXCEPT !.tempField = "Temp"]

\* the reading is taken and shown without the test of printTemp
measureTemperature_Unchecked(s, raw) ==
  IF s.sinceTemp > TempInterval
    THEN [s EXCEPT !.TCCelsius = raw, !.tempField = "Temp", !.sinceTemp = 0]
    ELSE s

\* raw is the double that thermoCouple.getTemperature() returns
measureTemperature(s, raw) ==
  IF s.sinceTemp > TempInterval
    THEN [printTemp([s EXCEPT !.TCCelsius = raw]) EXCEPT !.sinceTemp = 0]
    ELSE s

(***************************************************************************)
(* runReflow                                                               *)
(***************************************************************************)
\* ReflowTarget with the SOAK line starting at 20 degrees, as the PREHEAT
\* line does, in place of preheatTemp
ReflowTarget_SoakFromRoom(s, ph, t) ==
  IF ph = PREHEAT
    THEN Add(Num(RoomTemp),
             Mul(Mul(t, Div(Num(1), Num(s.preheatTime))),
                 Num(s.preheatTemp - RoomTemp)))
  ELSE IF ph = SOAK
    THEN Add(Num(RoomTemp),
             Mul(Div(Sub(t, Num(s.preheatTime)),
                     Num(s.soakingTime - s.preheatTime)),
                 Num(s.soakingTemp - RoomTemp)))
  ELSE IF ph = REFLOW
    THEN Add(Num(s.soakingTemp),
             Mul(Div(Sub(t, Num(s.soakingTime)),
                     Num(s.reflowTime - s.soakingTime)),
                 Num(s.reflowTemp - s.soakingTemp)))
  ELSE IF ph = HOLD
    THEN Add(Num(s.reflowTemp),
             Mul(Div(Sub(t, Num(s.reflowTime)),
                     Num(s.coolingTime - s.reflowTime)),
                 Num(s.coolingTemp - s.reflowTemp)))
  ELSE Num(CoolingTarget)

\* ReflowTarget with the PREHEAT line starting at 0 degrees
ReflowTarget_FromZero(s, ph, t) ==
  IF ph = PREHEAT
    THEN Mul(Mul(t, Div(Num(1), Num(s.preheatTime))), Num(s.preheatTemp))
  ELSE IF ph = SOAK
    THEN Add(Num(s.preheatTemp),
             Mul(Div(Sub(t, Num(s.preheatTime)),
                     Num(s.soakingTime - s.preheatTime)),
                 Num(s.soakingTemp - s.preheatTemp)))
  ELSE IF ph = REFLOW
    THEN Add(Num(s.soakingTemp),
             Mul(Div(Sub(t, Num(s.soakingTime)),
                     Num(s.reflowTime - s.soakingTime)),
                 Num(s.reflowTemp - s.soakingTemp)))
  ELSE IF ph = HOLD
    THEN Add(Num(s.reflowTemp),
             Mul(Div(Sub(t, Num(s.reflowTime)),
                     Num(s.coolingTime - s.reflowTime)),
                 Num(s.coolingTemp - s.reflowTemp)))
  ELSE Num(CoolingTarget)

\* targetTemp of a control step in phase ph at t seconds
ReflowTarget(s, ph, t) ==
  IF ph = PREHEAT
    THEN Add(Num(RoomTemp),
             Mul(Mul(t, Div(Num(1), Num(s.preheatTime))),
                 Num(s.preheatTemp - RoomTemp)))
  ELSE IF ph = SOAK
    THEN Add(Num(s.preheatTemp),
             Mul(Div(Sub(t, Num(s.preheatTime)),
                     Num(s.soakingTime - s.preheatTime)),
                 Num(s.soakingTemp - s.preheatTemp)))
  ELSE IF ph = REFLOW
    THEN Add(Num(s.soakingTemp),
             Mul(Div(Sub(t, Num(s.soakingTime)),
                     Num(s.reflowTime - s.soakingTime)),
                 Num(s.reflowTemp - s.soakingTemp)))
  ELSE IF ph = HOLD
    THEN Add(Num(s.reflowTemp),
             Mul(Div(Sub(t, Num(s.reflowTime)),
                     Num(s.coolingTime - s.reflowTime)),
                 Num(s.coolingTemp - s.reflowTemp)))
  ELSE Num(CoolingTarget)

\* the early turn-off of the PREHEAT and REFLOW phases
EarlyCutOff(s, t, cutoff, target) ==
  \/ Ge(t, Num(cutoff)) /\ Ge(s.TCCelsius, Sub(target, Num(EarlyMargin)))
  \/ Ge(s.TCCelsius, target)

\* ReflowOutput with case COOLING holding the target as case HOLD does
ReflowOutput_CoolingHolds(s, ph, t, target) ==
  IF ph = PREHEAT
    THEN (IF EarlyCutOff(s, t, s.preheatCutOff, target) THEN 0 ELSE 255)
  ELSE IF ph = SOAK
    THEN (IF Lt(s.TCCelsius, target) THEN 150 ELSE 0)
  ELSE IF ph = REFLOW
    THEN (IF EarlyCutOff(s, t, s.reflowCutOff, target) THEN 0 ELSE 255)
  ELSE (IF Lt(s.TCCelsius, target) THEN 50 ELSE 0)

\* ReflowOutput with the early turn-off also in case SOAK, 15 s before
\* soakingTime
ReflowOutput_EarlySoak(s, ph, t, target) ==
  IF ph = PREHEAT
    THEN (IF EarlyCutOff(s, t, s.preheatCutOff, target) THEN 0 ELSE 255)
  ELSE IF ph = SOAK
    THEN (IF EarlyCutOff(s, t, s.soakingTime - preheatCutOffTime, target)
            THEN 0 ELSE 150)
  ELSE IF ph = REFLOW
    THEN (IF EarlyCutOff(s, t, s.reflowCutOff, target) THEN 0 ELSE 255)
  ELSE IF ph = HOLD
    THEN (IF Lt(s.TCCelsius, target) THEN 50 ELSE 0)
  ELSE 0

\* Output of a control step in phase ph
ReflowOutput(s, ph, t, target) ==
  IF ph = PREHEAT
    THEN (IF EarlyCutOff(s, t, s.preheatCutOff, target) THEN 0 ELSE 255)
  ELSE IF ph = SOAK
    THEN (IF Lt(s.TCCelsius, target) THEN 150 ELSE 0)
  ELSE IF ph = REFLOW
    THEN (IF EarlyCutOff(s, t, s.reflowCutOff, target) THEN 0 ELSE 255)
  ELSE IF ph = HOLD
    THEN (IF Lt(s.TCCelsius, target) THEN 50 ELSE 0)
  ELSE 0

\* currentPhase after a control step in phase ph
NextPhase(s, ph, t) ==
  IF ph = PREHEAT
    THEN (IF Gt(s.TCCelsius, Num(s.preheatTemp)) /\ Gt(t, Num(s.preheatTime))
            THEN SOAK ELSE ph)
  ELSE IF ph = SOAK
    THEN (IF Gt(s.TCCelsius, Num(s.soakingTemp)) /\ Gt(t, Num(s.soakingTime))
            THEN REFLOW ELSE ph)
  ELSE IF ph = REFLOW
    THEN (IF Gt(s.TCCelsius, Num(s.reflowTemp)) \/ Gt(t, Num(s.reflowTime))
            THEN HOLD ELSE ph)
  ELSE IF ph = HOLD
    THEN (IF Gt(s.TCCelsius, Num(s.coolingTemp)) /\ Gt(t, Num(s.coolingTime))
            THEN COOLING ELSE ph)
  ELSE ph

\* CoolingFan with a fan that stays on once it has been switched on
CoolingFan_Latched(s, target) ==
  LET on == s.Fan_pin \/ Gt(s.TCCelsius, target)
  IN  [s EXCEPT !.heatingEnabled = FALSE, !.coolingFanEnabled = TRUE,
                !.Fan_pin = on, !.Fan = IF on THEN "ON" ELSE "OFF"]

\* case COOLING: the fan follows the comparison with the target
CoolingFan(s, target) ==
  LET on == Gt(s.TCCelsius, target)
  IN  [s EXCEPT !.heatingEnabled = FALSE, !.coolingFanEnabled = TRUE,
                !.Fan_pin = on, !.Fan = IF on THEN "ON" ELSE "OFF"]

\* ReflowStep with SSRTimer += SSRInterval in place of SSRTimer = millis():
\* the time that was missed is kept for later steps
ReflowStep_CatchUp(s) ==
  LET t == Seconds(s.elapsedHeatingTime)
      ph == s.currentPhase
      target == ReflowTarget(s, ph, t)
      out == ReflowOutput(s, ph, t, target)
      s1 == [s EXCEPT !.targetTemp = target, !.SSR_pin = out,
                      !.currentPhase = NextPhase(s, ph, t)]
      s2 == IF ph = COOLING THEN CoolingFan(s1, target) ELSE s1
  IN  [s2 EXCEPT !.elapsedHeatingTime = @ + 1,
                 !.sinceSSR = @ - (SSRInterval + 1)]

\* one control step: the body of the innermost if of runReflow
ReflowStep(s) ==
  LET t == Seconds(s.elapsedHeatingTime)
      ph == s.currentPhase
      target == ReflowTarget(s, ph, t)
      out == ReflowOutput(s, ph, t, target)
      s1 == [s EXCEPT !.targetTemp = target, !.SSR_pin = out,
                      !.currentPhase = NextPhase(s, ph, t)]
      s2 == IF ph = COOLING THEN CoolingFan(s1, target) ELSE s1
  IN  [s2 EXCEPT !.elapsedHeatingTime = @ + 1, !.sinceSSR = 0]

ReflowDue(s) ==
  /\ s.reflow
  /\ Lt(Seconds(s.elapsedHeatingTime), Num(EndOfScale))
  /\ s.sinceSSR > SSRInterval

runReflow(s) == IF ReflowDue(s) THEN ReflowStep(s) ELSE s

(***************************************************************************)
(* runWarmup, freeHeating, freeCooling                                     *)
(***************************************************************************)
AbsV(a) == [n |-> Abs(a.n), d |-> a.d]

\* Staged that falls back from slow-down to ramp-up when the plate is no
\* longer within near degrees below the setpoint
Staged_FallsBack(st, tc, setpoint, full, near, creep) ==
  LET gap == AbsV(Sub(Num(setpoint), tc))
      below == Lt(tc, Num(setpoint))
      a == IF ~st.slowdown /\ st.rampup
             THEN [st EXCEPT !.SSR_pin = full, !.writes = @ + 1] ELSE st
      b == IF Lt(gap, Num(near)) /\ below /\ a.rampup
             THEN [a EXCEPT !.SSR_pin = creep, !.slowdown = TRUE,
                            !.writes = @ + 1]
             ELSE [a EXCEPT !.slowdown = a.slowdown /\ ~below]
      c == IF Ge(tc, Num(setpoint)) /\ b.slowdown /\ b.rampup
             THEN [b EXCEPT !.slowdown = FALSE, !.rampup = FALSE] ELSE b
      reg == IF below THEN 40 ELSE 0
  IN  IF ~c.slowdown /\ ~c.rampup
        THEN [c EXCEPT !.SSR_pin = reg, !.writes = @ + 1] ELSE c

\* the staged heater law shared by runWarmup and freeHeating: st is
\* [rampup, slowdown, SSR_pin, writes], writes the number of calls of
\* analogWrite so far in the step, setpoint the integer target, full
\* the ramp-up output, near the slow-down threshold, creep the slow-down
\* output.  The four if statements run in the order of the source.
Staged(st, tc, setpoint, full, near, creep) ==
  LET gap == AbsV(Sub(Num(setpoint), tc))
      below == Lt(tc, Num(setpoint))
      a == IF ~st.slowdown /\ st.rampup
             THEN [st EXCEPT !.SSR_pin = full, !.writes = @ + 1] ELSE st
      b == IF Lt(gap, Num(near)) /\ below /\ a.rampup
             THEN [a EXCEPT !.SSR_pin = creep, !.slowdown = TRUE,
                            !.writes = @ + 1]
             ELSE a
      c == IF Ge(tc, Num(setpoint)) /\ b.slowdown /\ b.rampup
             THEN [b EXCEPT !.slowdown = FALSE, !.rampup = FALSE] ELSE b
      reg == IF below THEN 40 ELSE 0
  IN  IF ~c.slowdown /\ ~c.rampup
        THEN [c EXCEPT !.SSR_pin = reg, !.writes = @ + 1] ELSE c

\* the four if statements of a control step of runWarmup
WarmupStaged(s) ==
  Staged([rampup |-> s.warmup_rampup, slowdown |-> s.warmup_slowdown,
          SSR_pin |-> s.SSR_pin, writes |-> 0],
         s.TCCelsius, s.warmupTemp, 125, 10, 4)

\* WarmupStep that ends the warm-up once the plate has reached warmupTemp
WarmupStep_EndsAtTarget(s) ==
  LET st == WarmupStaged(s)
  IN  [s EXCEPT !.targetTemp = Num(s.warmupTemp),
                !.warmup_rampup = st.rampup, !.warmup_slowdown = st.slowdown,
                !.SSR_pin = st.SSR_pin,
                !.enableWarmup = Lt(s.TCCelsius, Num(s.warmupTemp)),
                !.elapsedHeatingTime = @ + 1, !.sinceSSR = 0]

WarmupStep(s) ==
  LET st == WarmupStaged(s)
  IN  [s EXCEPT !.targetTemp = Num(s.warmupTemp),
                !.warmup_rampup = st.rampup, !.warmup_slowdown = st.slowdown,
                !.SSR_pin = st.SSR_pin,
                !.elapsedHeatingTime = @ + 1, !.sinceSSR = 0]

runWarmup(s) ==
  IF s.enableWarmup /\ s.sinceSSR > SSRInterval THEN WarmupStep(s) ELSE s

\* the slow-down output of freeHeating depends on the setpoint
HeatingCreep(setpoint) ==
  IF setpoint < 100 THEN 10 ELSE IF setpoint < 200 THEN 20 ELSE 30

\* the four if statements of a control step of freeHeating
HeatingStaged(s) ==
  Staged([rampup |-> s.heating_rampup, slowdown |-> s.heating_slowdown,
          SSR_pin |-> s.SSR_pin, writes |-> 0],
         s.TCCelsius, s.freeHeatingTemp, 255, 25,
         HeatingCreep(s.freeHeatingTemp))

\* FreeHeatingStep that adds the time that has passed since the previous
\* step, in whole intervals
FreeHeatingStep_RealTime(s) ==
  LET st == HeatingStaged(s)
  IN  [s EXCEPT !.targetTemp = Num(s.freeHeatingTemp),
                !.heating_rampup = st.rampup,
                !.heating_slowdown = st.slowdown,
                !.SSR_pin = st.SSR_pin,
                !.elapsedHeatingTime = @ + (s.sinceSSR \div SSRInterval),
                !.sinceSSR = 0]

FreeHeatingStep(s) ==
  LET st == HeatingStaged(s)
  IN  [s EXCEPT !.targetTemp = Num(s.freeHeatingTemp),
                !.heating_rampup = st.rampup,
                !.heating_slowdown = st.slowdown,
                !.SSR_pin = st.SSR_pin,
                !.elapsedHeatingTime = @ + 1, !.sinceSSR = 0]

freeHeating(s) ==
  IF s.enableFreeHeating /\ s.sinceSSR > SSRInterval
    THEN FreeHeatingStep(s) ELSE s

\* freeCooling writes the fan pin only (not the Fan string)
FreeCoolingStep(s) ==
  [s EXCEPT !.targetTemp = Num(s.freeCoolingTemp),
            !.Fan_pin = Gt(s.TCCelsius, Num(s.freeCoolingTemp)),
            !.elapsedHeatingTime = @ + 1, !.sinceSSR = 0]

freeCooling(s) ==
  IF s.enableFreeCooling /\ s.sinceSSR > SSRInterval
    THEN FreeCoolingStep(s) ELSE s

(***************************************************************************)
(* loop()                                                                  *)
(***************************************************************************)
\* d ms of millis() pass; the two timers are followed up to cap ms
AdvanceWithin(s, d, cap) ==
  [s EXCEPT !.sinceSSR = Min(@ + d, cap), !.sinceTemp = Min(@ + d, cap)]

\* d ms of millis() pass
AdvanceTime(s, d) == AdvanceWithin(s, d, MaxLag)

\* the button is served at the end of the iteration
ServeButton(s) ==
  IF s.buttonPressedFlag
    THEN [processRotaryButton(s) EXCEPT !.buttonPressedFlag = FALSE]
    ELSE s

\* the control functions in the order loop() calls them
Control(s) == freeCooling(freeHeating(runWarmup(runReflow(s))))

\* one iteration of loop(), d ms after the previous one, the thermocouple
\* reading raw
loop(s, d, raw) ==
  ServeButton(Control(measureTemperature(AdvanceTime(s, d), raw)))

\* loop() with the timers followed up to cap ms
loopWithin(s, d, raw, cap) ==
  ServeButton(Control(measureTemperature(AdvanceWithin(s, d, cap), raw)))

\* an iteration of loop() whose processRotaryButton is preempted by
\* rotaryEncoderISR after the switch
preemptedLoop(s, d, raw, dir) ==
  LET c == Control(measureTemperature(AdvanceTime(s, d), raw))
  IN  IF c.buttonPressedFlag
        THEN [PreemptedButton(c, dir) EXCEPT !.buttonPressedFlag = FALSE]
        ELSE c

\* an iteration of loop() in which rotaryButtonISR runs while
\* processRotaryButton is executing: the flag it sets is cleared when
\* processRotaryButton returns
pressedLoop(s, d, raw) ==
  LET c == Control(measureTemperature(AdvanceTime(s, d), raw))
  IN  IF c.buttonPressedFlag
        THEN [rotaryButtonISR(processRotaryButton(c))
                EXCEPT !.buttonPressedFlag = FALSE]
        ELSE c

AnyMode(s) ==
  s.reflow \/ s.enableWarmup \/ s.enableFreeHeating \/ s.enableFreeCooling

(***************************************************************************)
(* Actions                                                                 *)
(***************************************************************************)
ValueItems == (0..8) \cup {ItemFreeHeatingTarget, ItemFreeCoolingTarget}

ModeItems ==
  {ItemWarmupButton, ItemStartStop, ItemFreeHeatingOnOff, ItemFreeCoolingOnOff}

EditingValue == \E k \in ValueItems : selected[k]

\* the press being served starts a mode
Activates(s) ==
  /\ s.buttonPressedFlag
  /\ s.itemCounter \in ModeItems
  /\ ~s.selected[s.itemCounter]

\* the iteration of loop() d ms after the previous one runs a control step
StepDue(s, d) == AnyMode(s) /\ s.sinceSSR + d > SSRInterval

\* a press of the encoder button
ButtonISR == Becomes(rotaryButtonISR(St))

\* a turn of the encoder by n detents; turns that edit a value are counted
EncoderTurn ==
  \E dir \in {0 - 1, 1}, n \in DetentCounts :
    Becomes([Detents(St, dir, n)
               EXCEPT !.edits = IF EditingValue THEN @ + 1 ELSE @])

\* an iteration of loop() d ms after the previous one, d from steps, with a
\* reading from temps
Iteration(steps, temps) ==
  \E d \in steps, raw \in temps : Becomes(loop(St, d, Num(raw)))

\* an iteration of loop() in a run that follows startsAllowed activations for
\* ticks control steps each: the activations are counted, and an iteration
\* that would run a later control step or start a later activation is left out
LimitedIteration(temps, ticks, startsAllowed) ==
  \E d \in TimeSteps, raw \in temps :
    /\ StepDue(St, d) => elapsedHeatingTime < ticks
    /\ Activates(St) => starts < startsAllowed
    /\ Becomes([loop(St, d, Num(raw))
                  EXCEPT !.starts = IF Activates(St) THEN @ + 1 ELSE @])

(***************************************************************************)
(* Spec: the whole program with the profiles of the table.  The knob moves *)
(* through the menu and the paste list; MaxStarts activations are followed *)
(* for MaxTicks control steps each.                                        *)
(***************************************************************************)
EncoderISR == ~EditingValue /\ EncoderTurn

Loop == LimitedIteration(TempSamples, MaxTicks, MaxStarts)

Next == ButtonISR \/ EncoderISR \/ Loop

Spec == Init /\ [][Next]_vars

(***************************************************************************)
(* SpecEdit: the whole program with edited values.  MaxEdits turns of the  *)
(* knob change a value, EditStarts activations are followed for EditTicks  *)
(* control steps each.                                                     *)
(***************************************************************************)
EncoderEditISR == (EditingValue => edits < MaxEdits) /\ EncoderTurn

LoopEdit == LimitedIteration(EditTemps, EditTicks, EditStarts)

NextEdit == ButtonISR \/ EncoderEditISR \/ LoopEdit

SpecEdit == Init /\ [][NextEdit]_vars

(***************************************************************************)
(* SpecPreempt: the whole program with the profiles of the table, where    *)
(* rotaryEncoderISR also runs inside processRotaryButton, after the switch *)
(* has read itemCounter (MaxPreempts times).  MaxStarts activations are    *)
(* followed for EditTicks control steps each.                              *)
(***************************************************************************)
LoopPreempt == LimitedIteration(EditTemps, EditTicks, MaxStarts)

\* an iteration of loop() that serves a press and is preempted while it does
PreemptedLoop ==
  \E d \in TimeSteps, raw \in EditTemps, dir \in {0 - 1, 1} :
    /\ buttonPressedFlag /\ preempts < MaxPreempts
    /\ StepDue(St, d) => elapsedHeatingTime < EditTicks
    /\ Activates(St) => starts < MaxStarts
    /\ Becomes([preemptedLoop(St, d, Num(raw), dir)
                  EXCEPT !.starts = IF Activates(St) THEN @ + 1 ELSE @,
                         !.preempts = @ + 1])

NextPreempt == ButtonISR \/ EncoderISR \/ LoopPreempt \/ PreemptedLoop

SpecPreempt == Init /\ [][NextPreempt]_vars

(***************************************************************************)
(* SpecPoll: each mode, started, stopped and started again by the button   *)
(* and polled at uneven intervals: at once, after half of SSRInterval and  *)
(* after more than two intervals.  The timers are followed up to PollLag   *)
(* ms, every activation for PollTicks control steps.                       *)
(***************************************************************************)
\* the state after k + 1 detents (to item k) and a press served at once
StartedMode(k) ==
  loopWithin(rotaryButtonISR(Detents(Setup, 1, k + 1)), 0, Num(RoomTemp),
             PollLag)

InitPoll == \E k \in ModeItems : Is(StartedMode(k))

LoopPoll ==
  \E d \in PollSteps, raw \in EditTemps :
    /\ StepDue(St, d) => elapsedHeatingTime < PollTicks
    /\ Becomes(loopWithin(St, d, Num(raw), PollLag))

NextPoll == ButtonISR \/ LoopPoll

SpecPoll == InitPoll /\ [][NextPoll]_vars

(***************************************************************************)
(* SpecSession: reflow sessions from start to end.  The menu is on the     *)
(* start/stop button with paste p loaded; the button starts and stops      *)
(* sessions, and every session is followed until its control steps end.    *)
(***************************************************************************)
\* the state after: one detent back (to the paste field), press, p detents,
\* press (the paste is copied), five detents back (to the start/stop button)
AtStartButton(p) ==
  LET s1 == Detents(Setup, 0 - 1, 1)
      s2 == loop(rotaryButtonISR(s1), 0, Num(RoomTemp))
      s3 == Detents(s2, 1, p)
      s4 == loop(rotaryButtonISR(s3), 0, Num(RoomTemp))
  IN  Detents(s4, 0 - 1, LastItem - ItemStartStop)

InitSession == \E p \in 0..(numSolderpastes - 1) : Is(AtStartButton(p))

LoopSession == Iteration(SessionSteps, SessionTemps)

NextSession == ButtonISR \/ LoopSession

SpecSession == InitSession /\ [][NextSession]_vars

(***************************************************************************)
(* SpecLag: one reflow session with the first paste of the table, the      *)
(* plate LagDegrees below the target of every control step.                *)
(***************************************************************************)
\* the start press has been served
Started == loop(rotaryButtonISR(AtStartButton(0)), 0, Num(RoomTemp))

InitLag == Is(Started)

\* the reading LagDegrees below the target that the control step of this
\* iteration computes
Lagging(s) ==
  Sub(ReflowTarget(s, s.currentPhase, Seconds(s.elapsedHeatingTime)),
      Num(LagDegrees))

LoopLag == Becomes(loop(St, SSRInterval + 1, Lagging(St)))

NextLag == LoopLag

SpecLag == InitLag /\ [][NextLag]_vars

(***************************************************************************)
(* SpecRange: the knob and the button in the menu, the value fields and    *)
(* the paste list, with turns of one detent and of RangeTurn detents;      *)
(* RangeEdits turns change a value field.  No mode is started.             *)
(***************************************************************************)
EncoderRange ==
  \E dir \in {0 - 1, 1}, n \in {1, RangeTurn} :
    /\ EditingValue => edits < RangeEdits
    /\ Becomes([Turn(St, dir, n)
                  EXCEPT !.edits = IF EditingValue THEN @ + 1 ELSE @])

LoopRange ==
  \E raw \in EditTemps :
    /\ ~Activates(St)
    /\ Becomes(loop(St, 0, Num(raw)))

NextRange == ButtonISR \/ EncoderRange \/ LoopRange

SpecRange == Init /\ [][NextRange]_vars

(***************************************************************************)
(* SpecPress: the four modes at their buttons, with MaxPresses presses of  *)
(* the button, each counted, between the iterations of loop() or while     *)
(* processRotaryButton is executing; the executions of                     *)
(* processRotaryButton are counted too.  PollTicks control steps of an     *)
(* activation are followed.                                                *)
(***************************************************************************)
InitPress == \E k \in ModeItems : Is(Detents(Setup, 1, k + 1))

PressISR ==
  /\ presses < MaxPresses
  /\ Becomes([rotaryButtonISR(St) EXCEPT !.presses = @ + 1])

LoopPress ==
  \E d \in TimeSteps, raw \in EditTemps :
    /\ StepDue(St, d) => elapsedHeatingTime < PollTicks
    /\ Becomes([loop(St, d, Num(raw))
                  EXCEPT !.served = IF buttonPressedFlag THEN @ + 1 ELSE @])

PressedLoop ==
  \E d \in TimeSteps, raw \in EditTemps :
    /\ buttonPressedFlag /\ presses < MaxPresses
    /\ StepDue(St, d) => elapsedHeatingTime < PollTicks
    /\ Becomes([pressedLoop(St, d, Num(raw))
                  EXCEPT !.presses = @ + 1, !.served = @ + 1])

NextPress == PressISR \/ LoopPress \/ PressedLoop

SpecPress == InitPress /\ [][NextPress]_vars

(***************************************************************************)
(* SpecTrack: one reflow session with each paste of the table, or free     *)
(* cooling for StageTicks control steps, the plate LagDegrees below or     *)
(* above the target of every control step.                                 *)
(***************************************************************************)
\* the start press has been served with paste p loaded
StartedPaste(p) == loop(rotaryButtonISR(AtStartButton(p)), 0, Num(RoomTemp))

\* the press at the free cooling button has been served
StartedCooling ==
  loop(rotaryButtonISR(Detents(Setup, 1, ItemFreeCoolingOnOff + 1)), 0,
       Num(RoomTemp))

InitTrack ==
  \/ \E p \in 0..(numSolderpastes - 1) : Is(StartedPaste(p))
  \/ Is(StartedCooling)

\* the readings LagDegrees below and above the target that the control step
\* of this iteration computes
Tracking(s) ==
  LET target ==
        IF s.enableFreeCooling THEN Num(s.freeCoolingTemp)
        ELSE ReflowTarget(s, s.currentPhase, Seconds(s.elapsedHeatingTime))
  IN  {Sub(target, Num(LagDegrees)), Add(target, Num(LagDegrees))}

LoopTrack ==
  \E raw \in Tracking(St) :
    /\ enableFreeCooling => elapsedHeatingTime < StageTicks
    /\ Becomes(loop(St, SSRInterval + 1, raw))

NextTrack == LoopTrack

SpecTrack == InitTrack /\ [][NextTrack]_vars

(***************************************************************************)
(* SpecStage: the warm-up and the free heating mode, started and stopped   *)
(* at their buttons (MaxStarts activations, StageTicks control steps       *)
(* each), the plate far below, just below or just above the setpoint.      *)
(***************************************************************************)
StagedItems == {ItemWarmupButton, ItemFreeHeatingOnOff}

\* the knob has been turned from the start position to item k
AtItem(k) == Detents(Setup, 1, k + 1)

InitStage == \E k \in StagedItems : Is(AtItem(k))

\* the setpoint of the mode whose button is selected
Setpoint(s) ==
  IF s.itemCounter = ItemWarmupButton THEN s.warmupTemp ELSE s.freeHeatingTemp

\* readings outside the slow-down band, inside it, and above the setpoint
StageTemps(s) ==
  {Setpoint(s) - StageFar, Setpoint(s) - LagDegrees, Setpoint(s) + LagDegrees}

LoopStage == LimitedIteration(StageTemps(St), StageTicks, MaxStarts)

NextStage == ButtonISR \/ LoopStage

SpecStage == InitStage /\ [][NextStage]_vars

(***************************************************************************)
(* Properties                                                              *)
(***************************************************************************)
\* the number of mode flags that are true
ActiveModes(s) ==
  Cardinality({i \in 1..4 :
     <<s.reflow, s.enableWarmup, s.enableFreeHeating, s.enableFreeCooling>>[i]})

\* the eight working profile values
Profile(s) ==
  <<s.preheatTemp, s.preheatTime, s.soakingTemp, s.soakingTime,
    s.reflowTemp, s.reflowTime, s.coolingTemp, s.coolingTime>>

\* this step serves the stop press of a mode
StopServed == \E k \in ModeItems : selected[k] /\ ~selected'[k]

\* this step runs a control step of runReflow
ReflowTick == reflow /\ elapsedHeatingTime' = elapsedHeatingTime + 1

\* the control steps of runReflow have ended: elapsedHeatingTime < 340 fails
TicksEnded == ~Lt(Seconds(elapsedHeatingTime), Num(EndOfScale))

\* the temperature and the time that end phase ph
EndTemp(s, ph) ==
  IF ph = PREHEAT THEN s.preheatTemp
  ELSE IF ph = SOAK THEN s.soakingTemp
  ELSE IF ph = REFLOW THEN s.reflowTemp
  ELSE s.coolingTemp

EndTime(s, ph) ==
  IF ph = PREHEAT THEN s.preheatTime
  ELSE IF ph = SOAK THEN s.soakingTime
  ELSE IF ph = REFLOW THEN s.reflowTime
  ELSE s.coolingTime

\* the denominator of the target interpolation of phase ph (none in COOLING)
Denominator(s, ph) ==
  IF ph = PREHEAT THEN s.preheatTime
  ELSE IF ph = SOAK THEN s.soakingTime - s.preheatTime
  ELSE IF ph = REFLOW THEN s.reflowTime - s.soakingTime
  ELSE IF ph = HOLD THEN s.coolingTime - s.reflowTime
  ELSE 1

C2_StopTurnsHeaterOff == [][StopServed => SSR_pin' = OFF]_vars

\* the warm-up has been stopped after a control step of its slow-down stage,
\* which drives the heater
C2_WarmupStopped ==
  /\ ~AnyMode(St) /\ starts >= 1 /\ ~selected[ItemWarmupButton]
  /\ warmup_slowdown /\ targetTemp = Num(warmupTemp) /\ SSR_pin = OFF

\* C3: a control step of runReflow taken in phase COOLING sets the target to
\* 40 and leaves the SSR output 0
C3_CoolingHeaterOff ==
  [][(ReflowTick /\ currentPhase = COOLING)
       => (targetTemp' = Num(CoolingTarget) /\ SSR_pin' = OFF)]_vars

\* a session is in COOLING after a control step of that phase, with the
\* plate below the target (the fan is off)
C3_InCooling ==
  /\ reflow /\ currentPhase = COOLING /\ targetTemp = Num(CoolingTarget)
  /\ Lt(TCCelsius, targetTemp) /\ ~Fan_pin /\ SSR_pin = OFF

\* C4: a session starts in PREHEAT, and while it runs currentPhase never
\* decreases in the order PREHEAT < SOAK < REFLOW < HOLD < COOLING (so that
\* COOLING, the last, is kept)
C4_PhaseNeverRegresses ==
  [][/\ (~reflow /\ reflow') => currentPhase' = PREHEAT
     /\ (reflow /\ reflow') => currentPhase' >= currentPhase]_vars

\* a session runs in PREHEAT after an earlier session went through COOLING
C4_Restarted ==
  /\ reflow /\ currentPhase = PREHEAT /\ elapsedHeatingTime >= 1
  /\ coolingFanEnabled

\* C5: a control step of runReflow advances currentPhase only when both the
\* measured temperature exceeds the end temperature of the phase and the
\* elapsed time exceeds its end time
C5_AdvanceNeedsBoth ==
  [][(ReflowTick /\ reflow' /\ currentPhase' # currentPhase)
       => /\ Gt(TCCelsius', Num(EndTemp(St, currentPhase)))
          /\ Gt(Seconds(elapsedHeatingTime),
                Num(EndTime(St, currentPhase)))]_vars

\* C6: with the first paste of the table and the plate 5 degrees below the
\* target at every control step, the session is in COOLING when its control
\* steps end
C6_LagReachesCooling == TicksEnded => currentPhase = COOLING

\* C7: a session that has reached COOLING ends on its own: once its control
\* steps have ended (nothing changes after that but by a press), the fan is
\* off and reflow is false
C7_SessionEnds ==
  (currentPhase = COOLING /\ TicksEnded) => (~reflow /\ ~Fan_pin)

\* C8: while a mode is active no step changes any of the eight working
\* profile values
C8_ProfileFrozen == [][AnyMode(St) => Profile(St)' = Profile(St)]_vars

\* a session runs with an edited profile and a press waits to be served
C8_RunsEdited ==
  /\ reflow /\ elapsedHeatingTime >= 1 /\ edits >= 1 /\ buttonPressedFlag
  /\ Profile(St) # Profile(LoadPaste(St, solderPasteSelected))

\* C9: no control step of runReflow evaluates a target interpolation whose
\* denominator is zero
C9_NoZeroDenominator ==
  [][ReflowTick => Denominator(St, currentPhase) # 0]_vars

\* C10: whenever no value field is open, the working profile has
\* preheatTime < soakingTime < reflowTime < coolingTime
C10_TimesIncrease ==
  EditingValue
    \/ (preheatTime < soakingTime /\ soakingTime < reflowTime
          /\ reflowTime < coolingTime)

\* C11: a control step of runReflow whose target interpolation has a zero
\* denominator (no valid target can be computed) leaves the SSR output 0
C11_InvalidTargetHeaterOff ==
  [][(ReflowTick /\ Denominator(St, currentPhase) = 0)
       => SSR_pin' = OFF]_vars

\* this step is an iteration of loop() that takes a reading above 500
FaultyReading(d, raw) ==
  /\ raw > TempErrorLimit /\ sinceTemp + d > TempInterval
  /\ St' = [loop(St, d, Num(raw)) EXCEPT !.starts = starts']

ModeFlag(s, k) ==
  IF k = ItemWarmupButton THEN s.enableWarmup
  ELSE IF k = ItemStartStop THEN s.reflow
  ELSE IF k = ItemFreeHeatingOnOff THEN s.enableFreeHeating
  ELSE s.enableFreeCooling

\* C13: a step that starts mode k while another mode j is active ends with
\* the flag of j false and the SSR output 0
C13_StartDeactivatesOther ==
  [][\A k \in ModeItems : \A j \in ModeItems \ {k} :
       (ModeFlag(St, j) /\ ~ModeFlag(St, k) /\ ModeFlag(St, k)')
         => (~ModeFlag(St, j)' /\ SSR_pin' = OFF)]_vars

\* C14: stopping a mode is idempotent: when the menu is on the button of a
\* running mode, serving two presses (stop, stop) leaves the state that
\* serving one press leaves
C14_StopIdempotent ==
  (itemCounter \in ModeItems /\ selected[itemCounter])
    => processRotaryButton(processRotaryButton(St)) = processRotaryButton(St)

C16_StartsInRampup ==
  /\ (enableWarmup /\ elapsedHeatingTime = 0)
       => (warmup_rampup /\ ~warmup_slowdown)
  /\ (enableFreeHeating /\ elapsedHeatingTime = 0)
       => (heating_rampup /\ ~heating_slowdown)

\* the modes that have no end of their own
OpenEndedItems ==
  {ItemWarmupButton, ItemFreeHeatingOnOff, ItemFreeCoolingOnOff}

\* C17: warm-up, free heating and free cooling end only on a stop press: a
\* step that makes enableWarmup, enableFreeHeating or enableFreeCooling false
\* serves a press on the button of that mode
C17_EndsOnlyOnStop ==
  [][\A k \in OpenEndedItems :
       (ModeFlag(St, k) /\ ~ModeFlag(St, k)')
         => (buttonPressedFlag /\ itemCounter = k /\ selected[k])]_vars

\* the warm-up still runs after MaxTicks control steps with the plate above
\* warmupTemp
C17_WarmupGoesOn ==
  /\ enableWarmup /\ elapsedHeatingTime = MaxTicks
  /\ Gt(TCCelsius, Num(warmupTemp)) /\ ~buttonPressedFlag

\* the eight values of table entry i
TableEntry(i) ==
  <<solderpastes[i].preheatTemp, solderpastes[i].preheatTime,
    solderpastes[i].soakingTemp, solderpastes[i].soakingTime,
    solderpastes[i].reflowTemp, solderpastes[i].reflowTime,
    solderpastes[i].coolingTemp, solderpastes[i].coolingTime>>

\* C18: a step that confirms the paste selection (second press on item 15)
\* ends with the eight working values equal to the table entry of the
\* selected index, whatever edits were made before
C18_CommitLoadsTable ==
  [][(selected[ItemSolderpaste] /\ ~selected'[ItemSolderpaste])
       => Profile(St)' = TableEntry(solderPasteSelected')]_vars

\* C19: whenever no value field is open, the early cut-off times are those
\* of the working profile: preheatCutOff = preheatTime - 15 and
\* reflowCutOff = reflowTime - 15
C19_CutOffsFollowTimes ==
  EditingValue
    \/ (preheatCutOff = preheatTime - preheatCutOffTime
          /\ reflowCutOff = reflowTime - reflowCutOffTime)

\* this step is a run of an interrupt handler: a press, or a turn of the knob
HandlerStep ==
  \/ St' = rotaryButtonISR(St)
  \/ \E dir \in {0 - 1, 1}, n \in DetentCounts :
       St' = [Detents(St, dir, n) EXCEPT !.edits = edits']

\* what the claim leaves to the poll loop: the profile values, the mode
\* flags, the phase, the elapsed time and the outputs
LoopOwned(s) ==
  <<Profile(s), s.reflow, s.enableWarmup, s.enableFreeHeating,
    s.enableFreeCooling, s.currentPhase, s.elapsedHeatingTime,
    s.SSR_pin, s.Fan_pin>>

\* C20: a run of rotaryButtonISR or rotaryEncoderISR changes none of the
\* profile values, mode flags, phase, elapsed time and outputs: the handlers
\* only record a press or a menu position
C20_HandlersOnlyRecord ==
  [][HandlerStep => LoopOwned(St)' = LoopOwned(St)]_vars

\* this step runs a control step of the active mode
StepRan == elapsedHeatingTime' = elapsedHeatingTime + 1

\* C21: an iteration of loop() d ms after the previous one runs a control
\* step of the active mode exactly when more than SSRInterval ms have passed
\* since the previous step, it runs one step and no more (elapsedHeatingTime
\* changes otherwise only when a start press is served), and the step
\* restarts the interval (nothing of a longer delay is kept for a later step)
C21_OneStepPerInterval ==
  [][\A d \in PollSteps, raw \in EditTemps :
       St' = loopWithin(St, d, Num(raw), PollLag)
         => /\ AnyMode(St) => (StepRan <=> sinceSSR + d > SSRInterval)
            /\ Activates(St)
                 \/ elapsedHeatingTime' \in
                      {elapsedHeatingTime, elapsedHeatingTime + 1}
            /\ StepRan => sinceSSR' = 0]_vars

\* two polls, each half an interval after the one before, have followed a
\* control step and have run no step: 250 ms is not more than SSRInterval
C21_PolledTwice ==
  /\ AnyMode(St) /\ elapsedHeatingTime >= 2
  /\ sinceSSR = 2 * (SSRInterval \div 2)

\* the breakpoint times increase strictly from the start of the process
IncreasingTimes(s) ==
  /\ 0 < s.preheatTime /\ s.preheatTime < s.soakingTime
  /\ s.soakingTime < s.reflowTime /\ s.reflowTime < s.coolingTime

\* the target formulas of phase ph and of the phase after it agree at the
\* time that ends ph
ContinuousAt(s, ph) ==
  ReflowTarget(s, ph, Num(EndTime(s, ph)))
    = ReflowTarget(s, ph + 1, Num(EndTime(s, ph)))

ExampleTick(ph, t) ==
  /\ ReflowTick /\ currentPhase = ph
  /\ elapsedHeatingTime = TicksPerSecond * t
  /\ Profile(St) = <<90, 90, 130, 180, 165, 240, 165, 250>>

\* C23: with the profile preheat (90, 90), soak (130, 180), reflow
\* (165, 240), cooling (165, 250) the control step of runReflow computes the
\* target 20 at 0 s and 90 at 90 s in PREHEAT, 130 at 180 s in SOAK and 165
\* at 240 s in REFLOW
C23_ExampleTargets ==
  [][/\ ExampleTick(PREHEAT, 0) => targetTemp' = Num(20)
     /\ ExampleTick(PREHEAT, 90) => targetTemp' = Num(90)
     /\ ExampleTick(SOAK, 180) => targetTemp' = Num(130)
     /\ ExampleTick(REFLOW, 240) => targetTemp' = Num(165)]_vars

\* the control step at 240 s has run in REFLOW
C23_ReflowEnd ==
  /\ reflow /\ currentPhase = REFLOW
  /\ elapsedHeatingTime = TicksPerSecond * 240 + 1
  /\ Profile(St) = <<90, 90, 130, 180, 165, 240, 165, 250>>
  /\ targetTemp = Num(165)

\* the heater value of the claim for a control step in phase ph (PREHEAT to
\* HOLD) at t seconds, with the reading tc, the target and the cut-off time
\* of the phase
HeaterLaw(ph, t, tc, target, cutoff) ==
  IF ph \in {PREHEAT, REFLOW}
    THEN (IF \/ Ge(t, Num(cutoff)) /\ Ge(tc, Sub(target, Num(15)))
             \/ Ge(tc, target)
            THEN 0 ELSE 255)
  ELSE IF ph = SOAK THEN (IF Lt(tc, target) THEN 150 ELSE 0)
  ELSE (IF Lt(tc, target) THEN 50 ELSE 0)

\* C24: a control step of runReflow in PREHEAT, SOAK, REFLOW or HOLD leaves
\* on the SSR the value of the heater law: early cut-off and 255 in PREHEAT
\* (preheatCutOff) and REFLOW (reflowCutOff), 150 or 0 in SOAK and 50 or 0
\* in HOLD by the comparison with the target alone
C24_ReflowHeaterLaw ==
  [][(ReflowTick /\ reflow' /\ currentPhase \in PREHEAT..HOLD)
       => SSR_pin' =
            HeaterLaw(currentPhase, Seconds(elapsedHeatingTime), TCCelsius',
                      targetTemp',
                      IF currentPhase = PREHEAT THEN preheatCutOff
                                                ELSE reflowCutOff)]_vars

\* a SOAK step has run within 15 s of soakingTime with the plate less than
\* 15 degrees below the target: the heater is at 150, not cut off
C24_SoakNotCutOff ==
  /\ reflow /\ currentPhase = SOAK /\ SSR_pin = 150
  /\ Ge(Seconds(elapsedHeatingTime), Num(soakingTime - 15))
  /\ Ge(TCCelsius, Sub(targetTemp, Num(15)))

\* this step runs a control step of runWarmup / of freeHeating and leaves
\* the mode active
WarmupTick == enableWarmup /\ StepRan /\ enableWarmup'

FreeHeatingTick == enableFreeHeating /\ StepRan /\ enableFreeHeating'

\* the heater value of the claim for the stage given by the two flags
StageValue(ramp, slow, tc, setpoint, full, creep) ==
  IF ramp /\ ~slow THEN full
  ELSE IF ramp THEN creep
  ELSE IF Lt(tc, Num(setpoint)) THEN 40 ELSE 0

\* C25: the value a control step of runWarmup or freeHeating leaves on the
\* SSR is the value of the stage the step ends in: 125 / 255 in ramp-up,
\* 4 / the creep value of the setpoint in slow-down, 40 or 0 in regulation
C25_StageFixesOutput ==
  [][/\ WarmupTick
          => SSR_pin' = StageValue(warmup_rampup', warmup_slowdown',
                                   TCCelsius', warmupTemp, 125, 4)
     /\ FreeHeatingTick
          => SSR_pin' = StageValue(heating_rampup', heating_slowdown',
                                   TCCelsius', freeHeatingTemp, 255,
                                   HeatingCreep(freeHeatingTemp))]_vars

\* the stage given by the two flags: 1 ramp-up, 2 slow-down, 3 regulate
StageOf(ramp, slow) ==
  IF ramp THEN (IF slow THEN 2 ELSE 1) ELSE IF slow THEN 0 ELSE 3

\* the stage after a control step that begins in stage st with the reading
\* tc, by the rules of the claim
StageAfter(st, tc, setpoint, near) ==
  IF st = 1
    THEN (IF /\ Lt(AbsV(Sub(Num(setpoint), tc)), Num(near))
             /\ Lt(tc, Num(setpoint)) THEN 2 ELSE 1)
  ELSE IF st = 2 THEN (IF Ge(tc, Num(setpoint)) THEN 3 ELSE 2)
  ELSE st

\* C26: a control step of runWarmup (freeHeating) in ramp-up enters
\* slow-down exactly when the plate is less than 10 (25) degrees from the
\* setpoint and below it, a step in slow-down enters regulation exactly when
\* the plate is at or above the setpoint, and no step of the program moves
\* the stage backwards
C26_StageProgression ==
  [][/\ (enableWarmup /\ StepRan)
          => StageOf(warmup_rampup', warmup_slowdown')
               = StageAfter(StageOf(warmup_rampup, warmup_slowdown),
                            TCCelsius', warmupTemp, 10)
     /\ (enableFreeHeating /\ StepRan)
          => StageOf(heating_rampup', heating_slowdown')
               = StageAfter(StageOf(heating_rampup, heating_slowdown),
                            TCCelsius', freeHeatingTemp, 25)
     /\ StageOf(warmup_rampup', warmup_slowdown')
          >= StageOf(warmup_rampup, warmup_slowdown)
     /\ StageOf(heating_rampup', heating_slowdown')
          >= StageOf(heating_rampup, heating_slowdown)]_vars

\* the first warm-up has gone through slow-down into regulation and its
\* third step, with the plate again 30 degrees below the setpoint, stays in
\* regulation
C26_RegulatesFarBelow ==
  /\ enableWarmup /\ starts = 1 /\ elapsedHeatingTime = 3
  /\ StageOf(warmup_rampup, warmup_slowdown) = 3
  /\ TCCelsius = Num(warmupTemp - StageFar)
  /\ SSR_pin = 40

\* C27: a control step of runReflow in COOLING and a control step of
\* freeCooling leave the fan on exactly when the reading of the step is
\* above 40, respectively above freeCoolingTemp, whatever the fan was before
C27_FanFollowsReading ==
  [][/\ (ReflowTick /\ reflow' /\ currentPhase = COOLING)
          => Fan_pin' = Gt(TCCelsius', Num(40))
     /\ (enableFreeCooling /\ StepRan /\ enableFreeCooling')
          => Fan_pin' = Gt(TCCelsius', Num(freeCoolingTemp))]_vars

\* a COOLING step has run with the plate at or below 40 and left the fan
\* off
C27_FanOffAgain ==
  /\ reflow /\ currentPhase = COOLING /\ coolingFanEnabled
  /\ ~Gt(TCCelsius, Num(40)) /\ ~Fan_pin
  /\ Fan = "OFF"

\* the state on which the control functions of this iteration ran: the
\* reading of the iteration has been taken
Measured == [St EXCEPT !.TCCelsius = TCCelsius']

\* C28: a control step of runWarmup and a control step of freeHeating call
\* analogWrite(SSR_pin, ...) exactly once
C28_OneWritePerTick ==
  [][/\ (enableWarmup /\ StepRan) => WarmupStaged(Measured).writes = 1
     /\ (enableFreeHeating /\ StepRan)
          => HeatingStaged(Measured).writes = 1]_vars

\* C29: an iteration of loop() that runs a control step adds one quarter
\* second to elapsedHeatingTime however late it is, an iteration that serves
\* a start press sets it to 0, and every other step of the program leaves
\* it unchanged: it never decreases between two starts
C29_ClockCountsSteps ==
  [][/\ \A d \in PollSteps, raw \in EditTemps :
          St' = loopWithin(St, d, Num(raw), PollLag)
            => elapsedHeatingTime' =
                 IF Activates(St) THEN 0
                 ELSE IF StepDue(St, d) THEN elapsedHeatingTime + 1
                 ELSE elapsedHeatingTime
     /\ \/ Activates(St) /\ elapsedHeatingTime' = 0
        \/ AnyMode(St) /\ StepRan /\ sinceSSR' = 0
        \/ elapsedHeatingTime' = elapsedHeatingTime]_vars

\* the free heating has run PollTicks control steps and the clock shows
\* PollTicks quarter seconds, whatever the time between the polls was
C29_ThreeSteps ==
  /\ enableFreeHeating /\ elapsedHeatingTime = PollTicks
  /\ sinceSSR = 0 /\ ~buttonPressedFlag

\* C30: once elapsedHeatingTime has reached 340 s in a reflow session, so
\* that runReflow runs no further control step, the SSR is at 0
C30_TimeOutHeaterOff == (reflow /\ TicksEnded) => SSR_pin = OFF

\* C31: a control step of runWarmup or freeHeating that runs with the plate
\* at or above the setpoint leaves the SSR at 0, in every stage
C31_AtSetpointHeaterOff ==
  [][/\ (WarmupTick /\ Ge(TCCelsius', Num(warmupTemp))) => SSR_pin' = 0
     /\ (FreeHeatingTick /\ Ge(TCCelsius', Num(freeHeatingTemp)))
          => SSR_pin' = 0]_vars

\* C32: a control step of runWarmup or freeHeating that runs with the plate
\* below the setpoint leaves the SSR above 0, in every activation
C32_BelowSetpointHeats ==
  [][/\ (WarmupTick /\ Lt(TCCelsius', Num(warmupTemp))) => SSR_pin' > 0
     /\ (FreeHeatingTick /\ Lt(TCCelsius', Num(freeHeatingTemp)))
          => SSR_pin' > 0]_vars

\* C33: whenever none of reflow, enableWarmup, enableFreeHeating and
\* enableFreeCooling is set, the SSR is at 0
C33_IdleHeaterOff == ~AnyMode(St) => SSR_pin = OFF

\* a free heating that has run control steps at full output has been
\* stopped and no mode is active
C33_HeatingStopped ==
  /\ ~AnyMode(St) /\ starts >= 1 /\ elapsedHeatingTime >= 1
  /\ itemCounter = ItemFreeHeatingOnOff
  /\ targetTemp = Num(freeHeatingTemp) /\ Lt(TCCelsius, targetTemp)
  /\ SSR_pin = OFF

\* C34: whenever none of reflow, enableWarmup, enableFreeHeating and
\* enableFreeCooling is set, the fan output is low
C34_IdleFanOff == ~AnyMode(St) => ~Fan_pin

\* C35: with rotaryEncoderISR running inside processRotaryButton, at most
\* one of the 16 selection flags is set and a set flag is that of the menu
\* item itemCounter points at
C35_SelectionAtCursor ==
  /\ Cardinality({k \in Items : selected[k]}) <= 1
  /\ \A k \in Items : selected[k] => itemCounter = k

\* C36: no more executions of processRotaryButton than runs of
\* rotaryButtonISR, and when no press is pending every run of
\* rotaryButtonISR has had its execution of processRotaryButton
C36_EveryPressServed ==
  /\ served <= presses
  /\ ~buttonPressedFlag => served = presses

\* the temperature at which phase ph starts
StartTemp(s, ph) == IF ph = PREHEAT THEN RoomTemp ELSE EndTemp(s, ph - 1)

\* the double a lies between the integers x and y, in either order
Between(a, x, y) ==
  \/ Ge(a, Num(x)) /\ Ge(Num(y), a)
  \/ Ge(a, Num(y)) /\ Ge(Num(x), a)

\* C37: for a profile with strictly increasing breakpoint times, the target
\* that a control step of runReflow in PREHEAT, SOAK, REFLOW or HOLD
\* computes lies between the start and the end temperature of that phase
C37_TargetWithinPhase ==
  [][(ReflowTick /\ IncreasingTimes(St) /\ currentPhase \in PREHEAT..HOLD)
       => Between(targetTemp', StartTemp(St, currentPhase),
                  EndTemp(St, currentPhase))]_vars

\* C38: every value the operator can edit is within its range, the menu
\* position within -1..15 and the paste index within the table
C38_ValuesInRange ==
  /\ preheatTemp \in 20..150 /\ soakingTemp \in 20..180
  /\ reflowTemp \in 0..250 /\ coolingTemp \in 0..250
  /\ preheatTime \in 0..90 /\ soakingTime \in 0..180
  /\ reflowTime \in 0..240 /\ coolingTime \in 0..250
  /\ warmupTemp \in 20..60 /\ freeHeatingTemp \in 20..300
  /\ freeCoolingTemp \in 20..200
  /\ itemCounter \in (0 - 1)..15
  /\ solderPasteSelected \in 0..(numSolderpastes - 1)

\* a long turn down has taken preheatTemp to the lower end of its range,
\* where its further detents have left it
C38_PreheatTempAtLowerEnd ==
  selected[ItemPreheatTemp] /\ edits = RangeEdits /\ preheatTemp = 20

\* C39: after a control step of runReflow in COOLING and after a control
\* step of freeCooling, both of which end with printFan, the string Fan that
\* printFan draws is "ON" exactly when the fan pin was last written HIGH
C39_FanShownAsDriven ==
  [][(\/ ReflowTick /\ reflow' /\ currentPhase = COOLING
      \/ enableFreeCooling /\ StepRan /\ enableFreeCooling')
       => Fan' = (IF Fan_pin' THEN "ON" ELSE "OFF")]_vars

====
